---- MODULE Spec2Model ----
(***************************************************************************)
(* Model of the AgentCore policy end-to-end scripts:                       *)
(*   src/src/setup_policy.py        gateway + target provisioning          *)
(*   src/src/deploy_runtime.py      agent runtime + endpoint deployment    *)
(*   src/src/deploy_runtime_jwt.py  the same with JWT inbound auth         *)
(*   src/src/test_policy.py         the allow/deny policy test             *)
(* Each script is a sequential program; `script` names the entry point a   *)
(* behaviour runs and `pc` its position.  Time is counted in whole         *)
(* seconds: `now` is time.time(), every remote call takes between 0 and    *)
(* MaxLatency seconds, time.sleep(3) takes Interval seconds (any oversleep *)
(* is part of the latency of the call that follows it).                    *)
(***************************************************************************)
EXTENDS Integers, Sequences, FiniteSets, TLC

VARIABLES
    script,            \* the entry point this behaviour runs
    pc,                \* position in the script
    abortReason,       \* why the process ended abnormally, "NONE" otherwise
    cfgExists,         \* config.json exists
    cfgKeys,           \* keys present in config.json
    gwExists,          \* the state file the script consumes exists: config_runtime.json,
                       \* or config_runtime_agent_jwt.json for the identity probe
    gwKeys,            \* keys present in that state file
    now,               \* time.time(), in seconds
    t0,                \* wait_gateway_ready: time at entry
    timeout_s,         \* wait_gateway_ready: the timeout argument
    status,            \* wait_gateway_ready: status of the last get_gateway
    fetches,           \* get_gateway calls issued by wait_gateway_ready
    sleeps,            \* time.sleep(3) calls issued by wait_gateway_ready
    readyFetches,      \* fetches of wait_gateway_ready that reported READY/ACTIVE
    lateFetches,       \* fetches issued when time.time() - t0 already exceeded timeout_s
    failedSeen,        \* some fetch of wait_gateway_ready reported FAILED
    gateway_arn,       \* main: gateway_arn
    gateway_endpoint,  \* main: gateway_endpoint
    target_arn,        \* main: target_arn
    submitted,         \* labels of the variants submitted, in order
    outcomes,          \* outcome of each submitted variant, in order
    target_resp,       \* what try_create_gateway_target returned
    last_err,          \* try_create_gateway_target: last_err
    issued,            \* create/upload calls issued to the cloud API
    created,           \* external resources that exist because of this run
    observedReady,     \* resources a status fetch of this run reported READY/ACTIVE
    persisted,         \* resources whose identifiers were written to a state file
    steps,             \* orchestration steps completed, in order
    refund_limit,      \* the configured refund limit
    policy,            \* the Cedar policy text in force
    amount,            \* amount of the last tools/call
    verdict,           \* decision on the last tools/call
    names,             \* name template submitted with each create call
    cleanupAt,         \* cleanup_policy.py: which try block runs next
    listed,            \* cleanup_policy.py: targets list_gateway_targets returned
    pending,           \* cleanup_policy.py: listed targets the loop has not reached
    delAttempts,       \* cleanup_policy.py: delete calls issued, in order
    delCause,          \* cleanup_policy.py: how each try block ended
    delReport,         \* cleanup_policy.py: what was printed for each resource
    lambdaOwned,       \* the lambda named in the state file was created by the run
    envSet,            \* COGNITO_CLIENT_ID, COGNITO_USERNAME, COGNITO_PASSWORD are set
    responses,         \* the probes' responses, in the order the probes were issued
    reported           \* what the probing run reports when it ends

vars == <<script, pc, abortReason, cfgExists, cfgKeys, gwExists, gwKeys, now, t0,
          timeout_s, status, fetches, sleeps, readyFetches, lateFetches,
          failedSeen, gateway_arn,
          gateway_endpoint, target_arn, submitted, outcomes, target_resp, last_err,
          issued, created, observedReady, persisted, steps, refund_limit, policy,
          amount, verdict, names, cleanupAt, listed, pending, delAttempts,
          delCause, delReport, lambdaOwned, envSet, responses, reported>>

cfgVars    == <<cfgExists, cfgKeys, gwExists, gwKeys>>
pollVars   == <<t0, timeout_s, status, fetches, sleeps, readyFetches, lateFetches,
                failedSeen>>
gwVars     == <<gateway_arn, gateway_endpoint, target_arn>>
probeVars  == <<submitted, outcomes, target_resp, last_err>>
policyVars == <<refund_limit, policy, amount, verdict>>
cleanVars  == <<cleanupAt, listed, pending, delAttempts, delCause, delReport,
                lambdaOwned>>
testVars   == <<envSet, responses, reported>>
\* everything the provisioning and deployment scripts work on
runVars    == <<cfgExists, cfgKeys, now, pollVars, gwVars, probeVars, issued,
                created, observedReady, persisted, steps, policyVars, names>>

----------------------------------------------------------------------------
(* Bounds of the model *)

\* longest time, in seconds, one remote call takes
MaxLatency == 1
\* largest timeout passed to wait_gateway_ready when it is called on its own
MaxTimeout == 7
\* how many required keys a configuration file may lack
MaxMissing == 1
\* refund limits range over DefaultRefundLimit +/- LimitSpread
LimitSpread == 1
\* how many targets the gateway may hold when cleanup_policy.py lists them
MaxTargets == 2

(* Program constants *)

\* wait_gateway_ready(ac, gateway_arn, timeout_s=120)
DefaultTimeout == 120
\* time.sleep(3)
Interval == 3
\* int(cfg.get("refund_limit", 1000))
DefaultRefundLimit == 1000

\* the entry points: the three scripts, wait_gateway_ready called on its own with
\* any timeout argument, and a tools/call against the deployed policy
Scripts == {"setup_policy", "wait_gateway_ready", "deploy_runtime",
            "deploy_runtime_jwt", "policy_check", "cleanup_policy", "test_policy",
            "identity_probe"}

\* what get_gateway may report in r.get("status"); "NONE" is a missing status
Statuses == {"CREATING", "READY", "ACTIVE", "FAILED", "NONE"}

----------------------------------------------------------------------------
(* Configuration *)

\* the keys main reads with cfg[...], which raise KeyError when absent
SetupRequiredKeys == {"region", "gateway_service_role_arn", "existing_lambda_arn"}

DeployRequiredKeys == {"region", "runtime_exec_role_arn", "runtime_code_s3_bucket",
                       "runtime_code_s3_prefix"}

DeployJwtRequiredKeys == DeployRequiredKeys \cup {"jwt_discovery_url", "jwt_allowed_audiences"}

\* the keys deploy_runtime.py reads from config_runtime.json with gw[...]
GatewayStateKeys == {"gateway_url", "target_name", "tool_name"}

RequiredKeys(s) ==
    CASE s = "setup_policy"       -> SetupRequiredKeys
      [] s = "deploy_runtime"     -> DeployRequiredKeys
      [] s = "deploy_runtime_jwt" -> DeployJwtRequiredKeys
      [] s = "identity_probe"     -> {"region"}
      [] OTHER                    -> {}

\* the files a run may find: all of `keys` but at most MaxMissing of them
KeySets(keys) == {S \in SUBSET keys : Cardinality(keys \ S) <= MaxMissing}

Abort(reason) ==
    /\ pc' = "aborted"
    /\ abortReason' = reason

----------------------------------------------------------------------------
(* setup_policy.py: cedar_policy_text and the decision the gateway takes *)

\* the comparison the generated `when` clause applies to resource.amount
CedarCompare(op, a, limit) ==
    CASE op = "<=" -> a <= limit
      [] op = "<"  -> a < limit
      [] OTHER     -> FALSE

\* cedar_policy_text(refund_limit, tool_name): a single permit statement on
\* the tool's action, guarded by `resource.amount <= refund_limit`
cedar_policy_text(limit, tool) ==
    [effect |-> "permit", action |-> tool, attribute |-> "amount",
     op |-> "<=", limit |-> limit]

\* Cedar's decision on a tools/call under the one policy of the engine in
\* ENFORCE mode: permitted when the permit statement matches, denied otherwise
Authorize(p, tool, a) ==
    IF /\ p.effect = "permit"
       /\ p.action = tool
       /\ CedarCompare(p.op, a, p.limit)
    THEN "ALLOW"
    ELSE "DENY"

\* test_policy.py reports "Policy threshold configured: amount < refund_limit"
ReportedThreshold(a, limit) == a < limit

ToolName == "process_refund"

RefundLimits == (DefaultRefundLimit - LimitSpread) .. (DefaultRefundLimit + LimitSpread)

Amounts == (DefaultRefundLimit - LimitSpread - 1) .. (DefaultRefundLimit + LimitSpread + 1)

----------------------------------------------------------------------------
(* setup_policy.py: wait_gateway_ready *)

\* mutant: only READY counts as ready
IsReady_OnlyREADY(s) == s = "READY"

\* status in ("READY", "ACTIVE")
IsReady(s) == s \in {"READY", "ACTIVE"}

\* mutant: the deadline test is not strict
DeadlinePassed_AtDeadline(t, start, timeout) == t - start >= timeout

\* mutant: the deadline test allows one more interval
DeadlinePassed_Late(t, start, timeout) == t - start > timeout + Interval

\* time.time() - t0 > timeout_s
DeadlinePassed(t, start, timeout) == t - start > timeout

\* mutant: the loop sleeps one second
AfterSleep_OneSecond(t) == t + 1

\* time.sleep(3)
AfterSleep(t) == t + Interval

\* t0 = time.time()
WaitEnter ==
    /\ pc = "wg_enter"
    /\ t0' = now
    /\ pc' = "wg_fetch"
    /\ UNCHANGED <<cleanVars, testVars, names, script, abortReason, cfgVars, now, timeout_s, status, fetches,
                   sleeps, readyFetches, lateFetches, failedSeen, gwVars, probeVars,
                   issued, created,
                   observedReady, persisted, steps, policyVars>>

\* mutant: the deadline test comes before the readiness test
IterationOutcome_DeadlineFirst(s, passed) ==
    IF passed THEN "raise" ELSE IF IsReady(s) THEN "return" ELSE "sleep"

\* how one iteration ends: `if status in (...): return`, then
\* `if time.time() - t0 > timeout_s: raise SystemExit(...)`, then time.sleep(3)
IterationOutcome(s, passed) ==
    IF IsReady(s) THEN "return" ELSE IF passed THEN "raise" ELSE "sleep"

\* one iteration of the loop up to its sleep: the fetch, the readiness test,
\* then the deadline test
WaitFetch ==
    /\ pc = "wg_fetch"
    /\ lateFetches' = IF DeadlinePassed(now, t0, timeout_s)
                      THEN lateFetches + 1 ELSE lateFetches
    /\ \E s \in Statuses, d \in 0 .. MaxLatency :
        /\ now' = now + d
        /\ status' = s
        /\ fetches' = fetches + 1
        /\ failedSeen' = (failedSeen \/ s = "FAILED")
        /\ LET outcome == IterationOutcome(s, DeadlinePassed(now', t0, timeout_s))
           IN IF outcome = "return"
              THEN /\ readyFetches' = readyFetches + 1
                   /\ observedReady' = observedReady \cup {"gateway"}
                   /\ steps' = Append(steps, "wait_ready")
                   /\ pc' = IF script = "setup_policy" THEN "refetch" ELSE "returned"
                   /\ UNCHANGED abortReason
              ELSE /\ UNCHANGED <<readyFetches, observedReady, steps>>
                   /\ IF outcome = "raise"
                      THEN Abort("timeout")
                      ELSE /\ pc' = "wg_sleep"
                           /\ UNCHANGED abortReason
    /\ UNCHANGED <<cleanVars, testVars, names, script, cfgVars, t0, timeout_s, sleeps, gwVars, probeVars,
                   issued, created, persisted, policyVars>>

WaitSleep ==
    /\ pc = "wg_sleep"
    /\ now' = AfterSleep(now)
    /\ sleeps' = sleeps + 1
    /\ pc' = "wg_fetch"
    /\ UNCHANGED <<cleanVars, testVars, names, script, abortReason, cfgVars, t0, timeout_s, status, fetches,
                   readyFetches, lateFetches, failedSeen, gwVars, probeVars, issued,
                   created, observedReady,
                   persisted, steps, policyVars>>

----------------------------------------------------------------------------
(* setup_policy.py: try_create_gateway_target *)

\* attempts = [("A ...", variant_a), ("B ...", variant_b)]
Attempts == <<"A", "B">>

\* target_name = cfg.get("target_name", "RefundTarget"), submitted as name=target_name.
\* A name is its configured base and the suffix appended to it: <<>> when nothing
\* is appended, <<t>> for the decimal string of the integer t.
target_name(token) == [base |-> "target_name", suffix |-> <<>>]

\* the name every variant's request carries, recorded with the run's token
TargetSubmission ==
    [resource |-> "gateway_target", name |-> target_name(names[1].token),
     token |-> names[1].token]

\* mutant: only the schema-validation error is caught
CaughtErrors_OnlyValidation == {"ParamValidationError"}

\* except (ParamValidationError, ClientError)
CaughtErrors == {"ParamValidationError", "ClientError"}

\* what ac.create_gateway_target(**req) may do: return a response, raise one of
\* the two caught errors, or raise anything else (a connection error, say)
SubmitOutcomes == {"accepted", "ParamValidationError", "ClientError", "OtherError"}

\* where the for loop goes after variant number i raised a caught error
AfterCaught(i) == IF i < Len(Attempts) THEN "try_variant" ELSE "no_variant"

\* mutant: the loop goes on to the next variant after one was accepted
AfterAccepted_KeepTrying(i) == IF i < Len(Attempts) THEN "try_variant" ELSE "done"

\* where try_create_gateway_target goes after variant number i was accepted:
\* `return resp`, and main runs to its end
AfterAccepted(i) == "done"

\* one turn of the for loop: submit the next variant
TryVariant ==
    /\ pc = "try_variant"
    /\ LET i == Len(submitted) + 1
           label == Attempts[i]
       IN \E o \in SubmitOutcomes, arnKey \in {"targetArn", "arn", "NONE"} :
           /\ submitted' = Append(submitted, label)
           /\ names' = Append(names, TargetSubmission)
           /\ outcomes' = Append(outcomes, o)
           /\ issued' = issued \cup {"create_gateway_target"}
           /\ IF o = "accepted"
              THEN /\ target_resp' = [variant |-> label, arnKey |-> arnKey]
                   /\ policy' = cedar_policy_text(refund_limit, ToolName)
                   /\ target_arn' = IF arnKey = "NONE" THEN "NONE" ELSE "target-arn"
                   /\ created' = created \cup {"target"}
                   /\ steps' = Append(steps, "create_target")
                   /\ pc' = AfterAccepted(i)
                   /\ UNCHANGED <<last_err, abortReason>>
              ELSE /\ arnKey = "NONE"
                   /\ UNCHANGED <<target_resp, target_arn, created, steps, policy>>
                   /\ IF o \in CaughtErrors
                      THEN /\ last_err' = <<label, o>>
                           /\ IF AfterCaught(i) = "no_variant"
                              THEN Abort("no_variant")
                              ELSE /\ pc' = AfterCaught(i)
                                   /\ UNCHANGED abortReason
                      ELSE /\ Abort("unhandled_error")
                           /\ UNCHANGED last_err
    /\ UNCHANGED <<cleanVars, testVars, script, cfgVars, now, pollVars, gateway_arn, gateway_endpoint,
                   observedReady, persisted, refund_limit, amount, verdict>>

\* the errors the final SystemExit message carries: f"Last error: {last_err}"
NoVariantDetail == IF last_err = <<>> THEN {} ELSE {last_err}

----------------------------------------------------------------------------
(* setup_policy.py: main *)

\* now_suffix(): str(int(time.time())), the token of the run
now_suffix == now

\* gateway_name = f"{gateway_prefix}-{now_suffix()}"
gateway_name(token) == [base |-> "gateway_name_prefix", suffix |-> <<token>>]

\* load_config() and the required keys cfg["region"], cfg["gateway_service_role_arn"],
\* cfg["existing_lambda_arn"]
SetupLoadConfig ==
    /\ pc = "load_config"
    /\ IF cfgExists /\ SetupRequiredKeys \subseteq cfgKeys
       THEN /\ pc' = "create_gateway"
            /\ UNCHANGED abortReason
       ELSE Abort("config")
    /\ UNCHANGED <<cleanVars, testVars, names, script, cfgVars, now, pollVars, gwVars, probeVars, issued,
                   created, observedReady, persisted, steps, policyVars>>

\* gw_resp = create_gateway(...); gateway_arn and gateway_endpoint are read from
\* the response; a response without an ARN ends the run
CreateGateway ==
    /\ pc = "create_gateway"
    /\ issued' = issued \cup {"create_gateway"}
    /\ names' = Append(names, [resource |-> "gateway", name |-> gateway_name(now_suffix),
                               token |-> now_suffix])
    /\ \E ok \in BOOLEAN, arnKey \in {"gatewayArn", "arn", "NONE"},
          ep \in {"NONE", "endpoint-from-create"}, d \in 0 .. MaxLatency :
        /\ now' = now + d
        /\ IF ~ok
           THEN /\ arnKey = "NONE" /\ ep = "NONE"
                /\ Abort("create_failed")
                /\ UNCHANGED <<created, gateway_arn, gateway_endpoint, steps>>
           ELSE /\ created' = created \cup {"gateway"}
                /\ gateway_arn' = IF arnKey = "NONE" THEN "NONE" ELSE "gateway-arn"
                /\ gateway_endpoint' = ep
                /\ steps' = Append(steps, "create_gateway")
                /\ IF arnKey = "NONE"
                   THEN Abort("missing_arn")
                   ELSE /\ pc' = "wg_enter"
                        /\ UNCHANGED abortReason
    /\ UNCHANGED <<cleanVars, testVars, script, cfgVars, pollVars, target_arn, probeVars, observedReady,
                   persisted, policyVars>>

\* mutant: the re-fetched endpoint wins when the re-fetch returns one
ResolveEndpoint_PreferFetched(current, fetched) ==
    IF fetched # "NONE" THEN fetched ELSE current

\* gateway_endpoint or gw_get.get("gatewayEndpoint") or gw_get.get("endpoint") or ...
ResolveEndpoint(current, fetched) ==
    IF current # "NONE" THEN current ELSE fetched

\* gw_get = ac.get_gateway(...);
\* gateway_endpoint = gateway_endpoint or gw_get.get("gatewayEndpoint") or ...
Refetch ==
    /\ pc = "refetch"
    /\ \E ep \in {"NONE", "endpoint-from-get"} :
        gateway_endpoint' = ResolveEndpoint(gateway_endpoint, ep)
    /\ pc' = "try_variant"
    /\ UNCHANGED <<cleanVars, testVars, names, script, abortReason, cfgVars, now, pollVars, gateway_arn,
                   target_arn, probeVars, issued, created, observedReady,
                   persisted, steps, policyVars>>

----------------------------------------------------------------------------
(* deploy_runtime.py and deploy_runtime_jwt.py: main *)

DeployScripts == {"deploy_runtime", "deploy_runtime_jwt"}

\* runtime_name = f"{cfg.get('runtime_name_prefix', ...)}-{int(time.time())}", with
\* "-jwt-" in place of "-" in deploy_runtime_jwt.py
runtime_name(s, token) ==
    [base |-> IF s = "deploy_runtime_jwt" THEN "runtime_name_prefix-jwt"
              ELSE "runtime_name_prefix",
     suffix |-> <<token>>]

\* endpoint_name = cfg.get("runtime_endpoint_name", "policy-agent-endpoint")
endpoint_name(token) == [base |-> "runtime_endpoint_name", suffix |-> <<>>]

\* deploy_runtime.py opens config_runtime.json; deploy_runtime_jwt.py does not
ReadsGatewayState(s) == s = "deploy_runtime"

\* open("config.json"), open("config_runtime.json") and the cfg[...] reads that
\* precede the upload
DeployLoadConfig ==
    /\ pc = "d_load"
    /\ IF /\ cfgExists
          /\ ReadsGatewayState(script) => gwExists
          /\ RequiredKeys(script) \subseteq cfgKeys
       THEN /\ pc' = "d_put_object"
            /\ UNCHANGED abortReason
       ELSE Abort("config")
    /\ UNCHANGED <<cleanVars, testVars, names, script, cfgVars, now, pollVars, gwVars, probeVars, issued,
                   created, observedReady, persisted, steps, policyVars>>

\* s3.put_object(Bucket=bucket, Key=s3_key, Body=zip_bytes)
PutObject ==
    /\ pc = "d_put_object"
    /\ issued' = issued \cup {"put_object"}
    /\ \E ok \in BOOLEAN :
        IF ok
        THEN /\ created' = created \cup {"s3_object"}
             /\ steps' = Append(steps, "put_object")
             /\ pc' = "d_create_runtime"
             /\ UNCHANGED abortReason
        ELSE /\ Abort("create_failed")
             /\ UNCHANGED <<created, steps>>
    /\ UNCHANGED <<cleanVars, testVars, names, script, cfgVars, now, pollVars, gwVars, probeVars,
                   observedReady, persisted, policyVars>>

\* runtime_resp = control.create_agent_runtime(...)
CreateAgentRuntime ==
    /\ pc = "d_create_runtime"
    /\ issued' = issued \cup {"create_agent_runtime"}
    /\ names' = Append(names, [resource |-> "agent_runtime",
                               name |-> runtime_name(script, now_suffix),
                               token |-> now_suffix])
    /\ \E ok \in BOOLEAN :
        IF ok
        THEN /\ created' = created \cup {"agent_runtime"}
             /\ steps' = Append(steps, "create_agent_runtime")
             /\ pc' = "d_create_endpoint"
             /\ UNCHANGED abortReason
        ELSE /\ Abort("create_failed")
             /\ UNCHANGED <<created, steps>>
    /\ UNCHANGED <<cleanVars, testVars, script, cfgVars, now, pollVars, gwVars, probeVars,
                   observedReady, persisted, policyVars>>

\* endpoint_resp = control.create_agent_runtime_endpoint(...), issued right
\* after create_agent_runtime returned
CreateAgentRuntimeEndpoint ==
    /\ pc = "d_create_endpoint"
    /\ issued' = issued \cup {"create_agent_runtime_endpoint"}
    /\ names' = Append(names, [resource |-> "runtime_endpoint",
                               name |-> endpoint_name(names[1].token),
                               token |-> names[1].token])
    /\ \E ok \in BOOLEAN :
        IF ok
        THEN /\ created' = created \cup {"runtime_endpoint"}
             /\ steps' = Append(steps, "create_agent_runtime_endpoint")
             /\ pc' = "d_write"
             /\ UNCHANGED abortReason
        ELSE /\ Abort("create_failed")
             /\ UNCHANGED <<created, steps>>
    /\ UNCHANGED <<cleanVars, testVars, script, cfgVars, now, pollVars, gwVars, probeVars,
                   observedReady, persisted, policyVars>>

\* out = {...}, where deploy_runtime.py reads gw["gateway_url"], gw["target_name"]
\* and gw["tool_name"], then json.dump(out, f)
WriteRuntimeConfig ==
    /\ pc = "d_write"
    /\ IF ReadsGatewayState(script) /\ ~(GatewayStateKeys \subseteq gwKeys)
       THEN /\ Abort("config")
            /\ UNCHANGED persisted
       ELSE /\ persisted' = {"s3_object", "agent_runtime", "runtime_endpoint"}
            /\ pc' = "done"
            /\ UNCHANGED abortReason
    /\ UNCHANGED <<cleanVars, testVars, names, script, cfgVars, now, pollVars, gwVars, probeVars, issued,
                   created, observedReady, steps, policyVars>>

----------------------------------------------------------------------------
(* The deployed policy deciding a tools/call, as test_policy.py observes it *)

\* the gateway holds the policy text setup_policy.py generated for the limit
DeployPolicy ==
    /\ pc = "policy_deploy"
    /\ policy' = cedar_policy_text(refund_limit, ToolName)
    /\ pc' = "policy_call"
    /\ UNCHANGED <<cleanVars, testVars, names, script, abortReason, cfgVars, now, pollVars, gwVars, probeVars,
                   issued, created, observedReady, persisted, steps, refund_limit,
                   amount, verdict>>

\* mcp_call(gateway_url, token, "tools/call", {"arguments": {"amount": a}})
ToolCall ==
    /\ pc = "policy_call"
    /\ \E a \in Amounts :
        /\ amount' = a
        /\ verdict' = Authorize(policy, ToolName, a)
    /\ UNCHANGED <<cleanVars, testVars, names, script, pc, abortReason, cfgVars, now, pollVars, gwVars,
                   probeVars, issued, created, observedReady, persisted, steps,
                   refund_limit, policy>>

----------------------------------------------------------------------------
(* cleanup_policy.py: main *)

\* the keys main reads from config_runtime.json
CleanupKeys == {"region", "policy_id", "policy_engine_id", "gateway_id",
                "lambda_function_name"}

\* mutant: the gateway is deleted before its targets
CleanupOrder_GatewayFirst == <<"policy", "policy_engine", "gateway", "target", "lambda">>

\* the order of the five try blocks
CleanupOrder == <<"policy", "policy_engine", "target", "gateway", "lambda">>

\* the key of config_runtime.json each try block reads
KeyOf(class) ==
    CASE class = "policy"        -> "policy_id"
      [] class = "policy_engine" -> "policy_engine_id"
      [] class = "target"        -> "gateway_id"
      [] class = "gateway"       -> "gateway_id"
      [] class = "lambda"        -> "lambda_function_name"

\* how a try block can end: the delete call returned, cfg[...] raised KeyError,
\* the service answered that the resource does not exist, or any other error
DeleteOutcomes == {"ok", "KeyError", "ResourceNotFound", "OtherError"}

\* mutant: only service errors are caught, a KeyError propagates
CaughtByCleanup_ServiceErrors == {"ResourceNotFound", "OtherError"}

\* except Exception
CaughtByCleanup == {"KeyError", "ResourceNotFound", "OtherError"}

\* mutant: the key of a deleted resource is removed from the state file
StateFileAfterDelete_Pruned(keys, key) == keys \ {key}

\* config_runtime.json after a try block: the file is opened for reading only
StateFileAfterDelete(keys, key) == keys

\* the targets of the gateway: those in OwnTargets were created by the run, the
\* others were added to the gateway by someone else
TargetIds == 1 .. MaxTargets

OwnTargets == {1}

\* what list_gateway_targets may return: any targets, in any order
TargetLists ==
    {q \in UNION {[1 .. n -> TargetIds] : n \in 0 .. MaxTargets} :
        \A i, j \in 1 .. Len(q) : i # j => q[i] # q[j]}

\* what print reports for a try block that ended with outcome o
Printed(o) == IF o = "ok" THEN "deleted" ELSE "skipped"

\* the try block after the current one, or the end of main
CleanupAdvance ==
    IF cleanupAt < Len(CleanupOrder)
    THEN /\ cleanupAt' = cleanupAt + 1
         /\ pc' = "cleanup"
    ELSE /\ cleanupAt' = cleanupAt
         /\ pc' = "done"

\* how a try block that ended with outcome o leaves the script
CleanupContinue(class, o) ==
    /\ delCause' = [delCause EXCEPT ![class] = o]
    /\ IF o = "ok" \/ o \in CaughtByCleanup
       THEN /\ delReport' = [delReport EXCEPT ![class] = Printed(o)]
            /\ CleanupAdvance
            /\ UNCHANGED abortReason
       ELSE /\ Abort("unhandled_error")
            /\ UNCHANGED <<delReport, cleanupAt>>

\* open("config_runtime.json") and cfg["region"]
CleanupLoad ==
    /\ pc = "c_load"
    /\ IF gwExists /\ "region" \in gwKeys
       THEN /\ pc' = "cleanup"
            /\ UNCHANGED abortReason
       ELSE Abort("config")
    /\ UNCHANGED <<script, runVars, testVars, gwExists, gwKeys, cleanVars>>

\* a try block with a single delete call
DeleteStep(class) ==
    /\ pc = "cleanup"
    /\ CleanupOrder[cleanupAt] = class
    /\ \E o \in DeleteOutcomes :
        /\ (o = "KeyError") <=> (KeyOf(class) \notin gwKeys)
        /\ delAttempts' = IF o = "KeyError" THEN delAttempts
                          ELSE Append(delAttempts, <<class, 0>>)
        /\ CleanupContinue(class, o)
    /\ gwKeys' = StateFileAfterDelete(gwKeys, KeyOf(class))
    /\ UNCHANGED <<script, runVars, testVars, gwExists, listed, pending, lambdaOwned>>

\* ac.delete_policy(policyId=cfg["policy_id"])
DeletePolicy == DeleteStep("policy")

\* ac.delete_policy_engine(policyEngineId=cfg["policy_engine_id"])
DeletePolicyEngine == DeleteStep("policy_engine")

\* ac.delete_gateway(gatewayIdentifier=cfg["gateway_id"])
DeleteGateway == DeleteStep("gateway")

\* lam.delete_function(FunctionName=cfg["lambda_function_name"])
DeleteLambda == DeleteStep("lambda")

\* targets = ac.list_gateway_targets(gatewayIdentifier=cfg["gateway_id"])
ListTargets ==
    /\ pc = "cleanup"
    /\ CleanupOrder[cleanupAt] = "target"
    /\ \E o \in DeleteOutcomes, q \in TargetLists :
        /\ (o = "KeyError") <=> ("gateway_id" \notin gwKeys)
        /\ IF o = "ok"
           THEN /\ listed' = q
                /\ pending' = q
                /\ IF q = <<>>
                   THEN CleanupContinue("target", "ok")
                   ELSE /\ pc' = "cleanup_targets"
                        /\ UNCHANGED <<cleanupAt, delCause, delReport, abortReason>>
           ELSE /\ q = <<>>
                /\ UNCHANGED <<listed, pending>>
                /\ CleanupContinue("target", o)
    /\ gwKeys' = StateFileAfterDelete(gwKeys, "gateway_id")
    /\ UNCHANGED <<script, runVars, testVars, gwExists, delAttempts, lambdaOwned>>

\* one turn of `for t in targets.get("targets", [])`: delete_gateway_target; an
\* exception leaves the loop for the except clause of the try block
DeleteTarget ==
    /\ pc = "cleanup_targets"
    /\ pending # <<>>
    /\ \E o \in DeleteOutcomes \ {"KeyError"} :
        /\ delAttempts' = Append(delAttempts, <<"target", Head(pending)>>)
        /\ IF o = "ok"
           THEN /\ pending' = Tail(pending)
                /\ IF Tail(pending) = <<>>
                   THEN CleanupContinue("target", "ok")
                   ELSE UNCHANGED <<pc, cleanupAt, delCause, delReport, abortReason>>
           ELSE /\ UNCHANGED pending
                /\ CleanupContinue("target", o)
    /\ gwKeys' = StateFileAfterDelete(gwKeys, "gateway_id")
    /\ UNCHANGED <<script, runVars, testVars, gwExists, listed, lambdaOwned>>

----------------------------------------------------------------------------
(* test_policy.py and invoke_runtime_jwt_identity_probe.py: the probes *)

\* the keys test_policy.py reads from config_runtime.json before its first call
TestRequiredKeys == {"gateway_url", "region", "refund_limit", "target_name",
                     "tool_name", "client_info"}

\* the keys the identity probe reads from config_runtime_agent_jwt.json
IdentityStateKeys == {"agentRuntimeArn", "endpointName"}

\* allowed_amount = 500, denied_amount = 2000
TestAmounts == <<500, 2000>>

\* the identity probe calls with no token, with a bad token, with a valid token
IdentityProbes == <<"no_token", "bad_token", "valid">>

\* what a probe can be answered: an HTTP status and a body that is a plain
\* result or error-shaped, and that names an authorization failure or not
ResponseCodes == {200, 401, 403, 500}

ResponseBodies == {"result", "result mentions forbidden", "error", "error unauthorized"}

Responses == [code : ResponseCodes, body : ResponseBodies]

\* any(k in body_l for k in ["unauthorized","forbidden","invalid token","not authorized"])
HasAuthKeyword(body) == body \in {"result mentions forbidden", "error unauthorized"}

\* denied(code, body)
denied(code, body) == code \in {401, 403} \/ HasAuthKeyword(body)

\* "valid_token_allowed": (200 <= c3 < 300)
valid_token_allowed(code) == 200 <= code /\ code < 300

\* open("config_runtime.json") and the cfg[...] reads up to cfg["client_info"]
TestLoad ==
    /\ pc = "t_load"
    /\ IF gwExists /\ TestRequiredKeys \subseteq gwKeys
       THEN /\ pc' = "t_token"
            /\ UNCHANGED abortReason
       ELSE Abort("config")
    /\ UNCHANGED <<script, runVars, cleanVars, testVars, gwExists, gwKeys>>

\* token = gateway_client.get_access_token_for_cognito(cfg["client_info"])
TestToken ==
    /\ pc = "t_token"
    /\ \E ok \in BOOLEAN :
        IF ok THEN pc' = "t_list" /\ UNCHANGED abortReason
        ELSE Abort("unhandled_error")
    /\ UNCHANGED <<script, runVars, cleanVars, testVars, gwExists, gwKeys>>

\* code, out = mcp_call(gateway_url, token, "tools/list")
TestList ==
    /\ pc = "t_list"
    /\ \E ok \in BOOLEAN :
        IF ok THEN pc' = "t_call" /\ UNCHANGED abortReason
        ELSE Abort("unhandled_error")
    /\ UNCHANGED <<script, runVars, cleanVars, testVars, gwExists, gwKeys>>

\* code, out = mcp_call(gateway_url, token, "tools/call", ...) for the next
\* amount, printed as it comes; requests.post or r.json() may raise; after the
\* second call the script prints "Testing complete!"
TestCall ==
    /\ pc = "t_call"
    /\ amount' = TestAmounts[Len(responses) + 1]
    /\ \E ok \in BOOLEAN, r \in Responses :
        IF ok
        THEN /\ responses' = Append(responses, r)
             /\ IF Len(responses') = Len(TestAmounts)
                THEN /\ pc' = "done"
                     /\ reported' = "success"
                ELSE UNCHANGED <<pc, reported>>
             /\ UNCHANGED abortReason
        ELSE /\ r.code = 500 /\ r.body = "error"
             /\ Abort("unhandled_error")
             /\ UNCHANGED <<responses, reported>>
    /\ UNCHANGED <<script, cfgExists, cfgKeys, now, pollVars, gwVars, probeVars,
                   issued, created, observedReady, persisted, steps, refund_limit,
                   policy, verdict, names, cleanVars, envSet, gwExists, gwKeys>>

\* the two files, cfg["region"] and the three environment variables
IdentityLoad ==
    /\ pc = "i_load"
    /\ IF /\ cfgExists /\ "region" \in cfgKeys
          /\ gwExists /\ IdentityStateKeys \subseteq gwKeys
          /\ envSet
       THEN /\ pc' = "i_token"
            /\ UNCHANGED abortReason
       ELSE Abort("config")
    /\ UNCHANGED <<script, runVars, cleanVars, testVars, gwExists, gwKeys>>

\* valid = get_valid_token(region, client_id, username, password)
IdentityToken ==
    /\ pc = "i_token"
    /\ \E ok \in BOOLEAN :
        IF ok THEN pc' = "i_call" /\ UNCHANGED abortReason
        ELSE Abort("unhandled_error")
    /\ UNCHANGED <<script, runVars, cleanVars, testVars, gwExists, gwKeys>>

\* c1, b1 = call(None); c2, b2 = call(bad); c3, b3 = call(valid)
IdentityCall ==
    /\ pc = "i_call"
    /\ \E ok \in BOOLEAN, r \in Responses :
        IF ok
        THEN /\ responses' = Append(responses, r)
             /\ pc' = IF Len(responses') = Len(IdentityProbes) THEN "i_report" ELSE "i_call"
             /\ UNCHANGED abortReason
        ELSE /\ r.code = 500 /\ r.body = "error"
             /\ Abort("unhandled_error")
             /\ UNCHANGED responses
    /\ UNCHANGED <<script, runVars, cleanVars, envSet, reported, gwExists, gwKeys>>

\* all([no_token_denied, bad_token_denied, valid_token_allowed])
IdentityChecksPass ==
    /\ denied(responses[1].code, responses[1].body)
    /\ denied(responses[2].code, responses[2].body)
    /\ valid_token_allowed(responses[3].code)

\* the report, and SystemExit("E2E identity checks failed") unless all three hold
IdentityReport ==
    /\ pc = "i_report"
    /\ IF IdentityChecksPass
       THEN /\ reported' = "success"
            /\ pc' = "done"
            /\ UNCHANGED abortReason
       ELSE /\ reported' = "failure"
            /\ Abort("checks_failed")
    /\ UNCHANGED <<script, runVars, cleanVars, envSet, responses, gwExists, gwKeys>>

----------------------------------------------------------------------------
(* Specification *)

NoPolicy == [effect |-> "none", action |-> "NONE", attribute |-> "NONE",
             op |-> "NONE", limit |-> 0]

StartPc(s) ==
    CASE s = "setup_policy"       -> "load_config"
      [] s = "wait_gateway_ready" -> "wg_enter"
      [] s \in DeployScripts      -> "d_load"
      [] s = "cleanup_policy"     -> "c_load"
      [] s = "test_policy"        -> "t_load"
      [] s = "identity_probe"     -> "i_load"
      [] OTHER                    -> "policy_deploy"

Init ==
    /\ script \in Scripts
    /\ pc = StartPc(script)
    /\ abortReason = "NONE"
    /\ IF script \in {"setup_policy", "identity_probe"} \cup DeployScripts
       THEN /\ cfgExists \in BOOLEAN
            /\ cfgKeys \in IF cfgExists THEN KeySets(RequiredKeys(script)) ELSE {{}}
       ELSE /\ cfgExists = TRUE
            /\ cfgKeys = {}
    /\ IF ReadsGatewayState(script)
       THEN /\ gwExists \in BOOLEAN
            /\ gwKeys \in IF gwExists THEN KeySets(GatewayStateKeys) ELSE {{}}
       ELSE IF script = "cleanup_policy"
       THEN /\ gwExists \in BOOLEAN
            /\ gwKeys \in IF gwExists THEN SUBSET CleanupKeys ELSE {{}}
       ELSE IF script = "test_policy"
       THEN /\ gwExists \in BOOLEAN
            /\ gwKeys \in IF gwExists THEN KeySets(TestRequiredKeys) ELSE {{}}
       ELSE IF script = "identity_probe"
       THEN /\ gwExists \in BOOLEAN
            /\ gwKeys \in IF gwExists THEN KeySets(IdentityStateKeys) ELSE {{}}
       ELSE /\ gwExists = TRUE
            /\ gwKeys = GatewayStateKeys
    /\ now = 0
    /\ t0 = 0
    /\ timeout_s \in IF script = "wait_gateway_ready" THEN 0 .. MaxTimeout
                     ELSE {DefaultTimeout}
    /\ status = "NONE"
    /\ fetches = 0
    /\ sleeps = 0
    /\ readyFetches = 0
    /\ lateFetches = 0
    /\ failedSeen = FALSE
    /\ gateway_arn = "NONE"
    /\ gateway_endpoint = "NONE"
    /\ target_arn = "NONE"
    /\ submitted = <<>>
    /\ outcomes = <<>>
    /\ target_resp = [variant |-> "NONE", arnKey |-> "NONE"]
    /\ last_err = <<>>
    /\ issued = {}
    /\ created = {}
    /\ observedReady = {}
    /\ persisted = {}
    /\ steps = <<>>
    /\ refund_limit \in IF script = "policy_check" THEN RefundLimits
                        ELSE {DefaultRefundLimit}
    /\ policy = NoPolicy
    /\ amount = 0
    /\ verdict = "NONE"
    /\ names = <<>>
    /\ cleanupAt = 1
    /\ listed = <<>>
    /\ pending = <<>>
    /\ delAttempts = <<>>
    /\ delCause = [c \in {"policy", "policy_engine", "target", "gateway", "lambda"} |-> "NONE"]
    /\ delReport = [c \in {"policy", "policy_engine", "target", "gateway", "lambda"} |-> "NONE"]
    /\ lambdaOwned \in IF script = "cleanup_policy" THEN BOOLEAN ELSE {FALSE}
    /\ envSet \in IF script = "identity_probe" THEN BOOLEAN ELSE {TRUE}
    /\ responses = <<>>
    /\ reported = "NONE"

Next ==
    \/ SetupLoadConfig
    \/ CreateGateway
    \/ WaitEnter
    \/ WaitFetch
    \/ WaitSleep
    \/ Refetch
    \/ TryVariant
    \/ DeployLoadConfig
    \/ PutObject
    \/ CreateAgentRuntime
    \/ CreateAgentRuntimeEndpoint
    \/ WriteRuntimeConfig
    \/ DeployPolicy
    \/ ToolCall
    \/ CleanupLoad
    \/ DeletePolicy
    \/ DeletePolicyEngine
    \/ ListTargets
    \/ DeleteTarget
    \/ DeleteGateway
    \/ DeleteLambda
    \/ TestLoad
    \/ TestToken
    \/ TestList
    \/ TestCall
    \/ IdentityLoad
    \/ IdentityToken
    \/ IdentityCall
    \/ IdentityReport

Spec == Init /\ [][Next]_vars

\* the scripts are sequential programs: a step that can be taken is taken
FairSpec == Spec /\ WF_vars(Next)

----------------------------------------------------------------------------
(* Properties *)

\* time.time() - t0, as wait_gateway_ready measures it
Elapsed == now - t0

\* wait_gateway_ready returned
PollerReturned == readyFetches > 0

\* wait_gateway_ready raised SystemExit("Gateway did not become READY ...")
TimeoutRaised == abortReason = "timeout"

\* wait_gateway_ready is in its loop
PollerActive == pc \in {"wg_fetch", "wg_sleep"}

\* the order of steps section 4.1 of the specification gives for a provisioning run
ProvisioningOrder ==
    <<"create_gateway", "wait_ready", "create_target", "create_policy_engine",
      "wait_ready", "create_policy", "wait_ready", "attach_policy_engine",
      "wait_ready">>

\* C1: a tool call is permitted exactly when its amount is strictly below the
\* configured limit (the boundary amount is denied), and the decision under the
\* generated policy agrees with the threshold the test script reports.
C1_StrictThreshold ==
    verdict # "NONE" =>
        /\ (verdict = "ALLOW") <=> (amount < refund_limit)
        /\ (verdict = "ALLOW") <=> ReportedThreshold(amount, refund_limit)

\* C2: a provisioning run that reports success has performed all nine steps of
\* the provisioning order, each once and in order.
C2_FullProvisioningOrder ==
    (script = "setup_policy" /\ pc = "done") => steps = ProvisioningOrder

\* C3: a create call for a child is issued only after a status fetch reported
\* its parent READY or ACTIVE: the gateway for create_gateway_target, the agent
\* runtime for create_agent_runtime_endpoint.
C3_ChildAfterParentReady ==
    /\ "create_gateway_target" \in issued => "gateway" \in observedReady
    /\ "create_agent_runtime_endpoint" \in issued => "agent_runtime" \in observedReady

\* C4: when a run aborts after creating at least one external resource, the
\* identifiers of all resources created so far have been written to the
\* persisted state file.
C4_AbortPersistsState ==
    (pc = "aborted" /\ created # {}) => created \subseteq persisted

\* C5: when a missing-configuration error is raised, no create or upload call
\* has been issued and no resource has been created.
C5_ConfigErrorBeforeCreate ==
    abortReason = "config" => (issued = {} /\ created = {})

\* C6: the poller fetches at least once (also with timeout 0), sleeps exactly one
\* interval between two consecutive fetches, and returns on the first fetch that
\* reports READY or ACTIVE, with no further fetch or sleep.
C6_PollerFetchSleepReturn ==
    /\ (PollerReturned \/ TimeoutRaised) => (fetches >= 1 /\ sleeps = fetches - 1)
    /\ pc = "wg_fetch" => sleeps = fetches
    /\ pc = "wg_sleep" => sleeps = fetches - 1
    /\ fetches >= 1 =>
           /\ Elapsed >= sleeps * Interval
           /\ Elapsed <= sleeps * Interval + fetches * MaxLatency
    /\ readyFetches <= 1
    /\ (fetches >= 1 /\ status \in {"READY", "ACTIVE"}) =>
           (readyFetches = 1 /\ ~PollerActive /\ ~TimeoutRaised)
    /\ PollerReturned => status \in {"READY", "ACTIVE"}

\* the poller returned on its third fetch, after two sleeps, on status ACTIVE
C6_Witness ==
    /\ script = "wait_gateway_ready"
    /\ pc = "returned"
    /\ status = "ACTIVE"
    /\ fetches = 3
    /\ sleeps = 2

\* C7 as stated, read with its proviso that N intervals are below the timeout:
\* with N not-ready fetches followed by a ready one the poller returns with
\* elapsed time at least N intervals and less than the timeout, and it raises no
\* timeout on any of the first N fetches.
C7_ElapsedBelowTimeout ==
    /\ (PollerReturned /\ (fetches - 1) * Interval < timeout_s) =>
           /\ Elapsed >= (fetches - 1) * Interval
           /\ Elapsed < timeout_s
    /\ TimeoutRaised => ~(fetches * Interval < timeout_s)

\* C7 amended: with N not-ready fetches followed by a ready one, none of the N
\* completing after the deadline, the poller returns after exactly N + 1 fetches
\* and N sleeps, with elapsed time at least N intervals; the elapsed time at the
\* return may reach or pass the timeout, by at most one interval plus the
\* time the last fetch takes; a timeout is raised only after a not-ready fetch
\* that completed after the deadline.
C7_ReturnsOnFirstReady ==
    /\ PollerReturned =>
           /\ fetches = sleeps + 1
           /\ Elapsed >= (fetches - 1) * Interval
           /\ Elapsed <= timeout_s + Interval + MaxLatency
           /\ ~TimeoutRaised
    /\ pc = "wg_sleep" => (~IsReady(status) /\ Elapsed <= timeout_s)
    /\ TimeoutRaised => (readyFetches = 0 /\ Elapsed > timeout_s)

\* the poller returned on call N + 1 = 3 at an elapsed time not below the timeout
C7_Witness ==
    /\ script = "wait_gateway_ready"
    /\ pc = "returned"
    /\ fetches = 3
    /\ timeout_s = 2 * Interval
    /\ Elapsed >= timeout_s

\* C8: when no fetch reports ready the poller terminates with the timeout
\* failure, raised at an elapsed time above the timeout and never followed by a
\* sleep, a fetch or a create call.
C8_TimeoutTerminates ==
    /\ [](TimeoutRaised => (pc = "aborted" /\ readyFetches = 0 /\ Elapsed > timeout_s))
    /\ [](pc = "wg_sleep" => Elapsed <= timeout_s)
    /\ [](TimeoutRaised => "create_gateway_target" \notin issued)
    /\ [][TimeoutRaised => UNCHANGED <<fetches, sleeps, issued, created>>]_vars
    /\ (pc = "wg_fetch") ~> (PollerReturned \/ TimeoutRaised)

\* the provisioning run timed out on a gateway that never became ready
C8_Witness ==
    /\ script = "setup_policy"
    /\ TimeoutRaised
    /\ readyFetches = 0
    /\ lateFetches = 0
    /\ failedSeen = FALSE
    /\ fetches * Interval > DefaultTimeout
    /\ created = {"gateway"}

\* C9: the poller fails only at an elapsed time strictly above the timeout; a
\* not-ready status, FAILED and a missing status included, reported before that
\* leads to a sleep and another fetch, exactly as CREATING does.
C9_NoFailureBeforeDeadline ==
    /\ TimeoutRaised => Elapsed > timeout_s
    /\ (fetches >= 1 /\ status \notin {"READY", "ACTIVE"}) =>
           \/ PollerActive
           \/ (TimeoutRaised /\ pc = "aborted")
    /\ (PollerActive /\ fetches >= 1) => status \notin {"READY", "ACTIVE"}

\* FAILED was reported before the deadline and the poller sleeps on
C9_Witness ==
    /\ pc = "wg_sleep"
    /\ status = "FAILED"
    /\ fetches = 2
    /\ Elapsed <= timeout_s

\* C10: the variants are submitted in the declared order A, B, each at most
\* once; a variant failing with ParamValidationError or ClientError is followed
\* by the next one; the first accepted variant ends the probing and its response
\* is what is returned.
C10_VariantOrder ==
    /\ Len(submitted) <= 2
    /\ Len(outcomes) = Len(submitted)
    /\ \A i \in 1 .. Len(submitted) : submitted[i] = <<"A", "B">>[i]
    /\ \A i \in 1 .. Len(outcomes) - 1 :
           outcomes[i] \in {"ParamValidationError", "ClientError"}
    /\ (/\ Len(outcomes) = 1
        /\ outcomes[1] \in {"ParamValidationError", "ClientError"}) => pc = "try_variant"
    /\ (outcomes # <<>> /\ outcomes[Len(outcomes)] = "accepted") =>
           /\ pc = "done"
           /\ target_resp.variant = submitted[Len(submitted)]
    /\ target_resp.variant # "NONE" =>
           (outcomes # <<>> /\ outcomes[Len(outcomes)] = "accepted")

\* A was rejected by the service, B was accepted and its response returned
C10_Witness ==
    /\ submitted = <<"A", "B">>
    /\ outcomes = <<"ClientError", "accepted">>
    /\ target_resp.variant = "B"
    /\ pc = "done"

\* C11: when every variant fails, the no-variant-accepted error carries the
\* underlying error of every variant that was tried, one per variant.
C11_AllErrorsCarried ==
    abortReason = "no_variant" =>
        \A i \in 1 .. Len(submitted) : <<submitted[i], outcomes[i]>> \in NoVariantDetail

\* the position of a resource class in the reverse of the creation order
TeardownRank(class) ==
    CASE class = "policy"        -> 1
      [] class = "policy_engine" -> 2
      [] class = "target"        -> 3
      [] class = "gateway"       -> 4
      [] class = "lambda"        -> 5

\* how many delete calls were issued for resource <<class, id>>
DeleteCalls(class, id) ==
    Cardinality({i \in 1 .. Len(delAttempts) : delAttempts[i] = <<class, id>>})

\* C12: deletion attempts are issued in the order policy, policy engine,
\* gateway targets, gateway, lambda: no attempt for a class precedes an attempt
\* for a class earlier in that list, whatever the earlier attempts' outcomes.
C12_TeardownOrder ==
    \A i, j \in 1 .. Len(delAttempts) :
        i < j => TeardownRank(delAttempts[i][1]) <= TeardownRank(delAttempts[j][1])

\* all five classes were attempted although the first two deletions failed
C12_Witness ==
    /\ script = "cleanup_policy"
    /\ pc = "done"
    /\ delCause["policy"] = "OtherError"
    /\ delCause["policy_engine"] = "ResourceNotFound"
    /\ {delAttempts[i][1] : i \in 1 .. Len(delAttempts)} =
           {"policy", "policy_engine", "target", "gateway", "lambda"}

\* C13: whichever deletions fail and whichever identifiers are missing from the
\* state file, teardown runs to its end and has then attempted every other
\* resource exactly once (the targets: listed once, each listed target at most
\* once, and exactly once when no target deletion failed).
C13_BestEffort ==
    script = "cleanup_policy" =>
        /\ pc = "aborted" => (abortReason = "config" /\ delAttempts = <<>>)
        /\ pc \in {"cleanup", "cleanup_targets"} => ENABLED Next
        /\ \A id \in TargetIds : DeleteCalls("target", id) <= 1
        /\ pc = "done" =>
            /\ \A class \in {"policy", "policy_engine", "gateway", "lambda"} :
                   DeleteCalls(class, 0) = IF KeyOf(class) \in gwKeys THEN 1 ELSE 0
            /\ \A class \in {"policy", "policy_engine", "target", "gateway", "lambda"} :
                   /\ delCause[class] # "NONE"
                   /\ (delCause[class] = "KeyError") <=> (KeyOf(class) \notin gwKeys)
            /\ delCause["target"] = "ok" =>
                   \A i \in 1 .. Len(listed) : DeleteCalls("target", listed[i]) = 1

\* the deletion of a target failed, the policy identifier was missing, and the
\* policy engine, the gateway and the lambda were still attempted
C13_Witness ==
    /\ script = "cleanup_policy"
    /\ pc = "done"
    /\ delCause["policy"] = "KeyError"
    /\ delCause["target"] = "OtherError"
    /\ DeleteCalls("policy_engine", 0) = 1
    /\ DeleteCalls("gateway", 0) = 1
    /\ DeleteCalls("lambda", 0) = 1

\* C14: each resource is reported as deleted, as skipped because it was already
\* absent, or as failed; a deletion that failed with an error other than
\* resource-not-found is never reported as skipped.
C14_FailureNotReportedSkipped ==
    \A class \in DOMAIN delReport :
        /\ delReport[class] \in {"NONE", "deleted", "skipped", "failed"}
        /\ delCause[class] = "OtherError" => delReport[class] # "skipped"

\* C15: delete calls are issued only for resources the run created: never for a
\* lambda the run merely referenced, never for a target someone else added to
\* the gateway.
C15_OnlyOwnResourcesDeleted ==
    \A i \in 1 .. Len(delAttempts) :
        /\ delAttempts[i][1] = "target" => delAttempts[i][2] \in OwnTargets
        /\ delAttempts[i][1] = "lambda" => lambdaOwned

\* a body is error-shaped when it carries an error member instead of a result
ErrorShaped(body) == body \in {"error", "error unauthorized"}

\* the verdicts the identity probe's two tests give one response
ProbeVerdicts(r) ==
    (IF valid_token_allowed(r.code) THEN {"ALLOW"} ELSE {})
        \cup (IF denied(r.code, r.body) THEN {"DENY"} ELSE {})

\* C16: every response a probe receives is classified as exactly one of ALLOW
\* and DENY: ALLOW exactly when the HTTP status is a success and the body is not
\* error-shaped, DENY for every 4xx/5xx status and every error-shaped body.
C16_ClassificationTotalExclusive ==
    script = "identity_probe" =>
        \A i \in 1 .. Len(responses) :
            LET r == responses[i] IN
            /\ Cardinality(ProbeVerdicts(r)) = 1
            /\ ("ALLOW" \in ProbeVerdicts(r))
                   <=> (valid_token_allowed(r.code) /\ ~ErrorShaped(r.body))
            /\ (r.code >= 400 \/ ErrorShaped(r.body)) => "DENY" \in ProbeVerdicts(r)

\* the verdict the specification gives a response
StatedVerdict(r) ==
    IF valid_token_allowed(r.code) /\ ~ErrorShaped(r.body) THEN "ALLOW" ELSE "DENY"

\* the verdict each probe of a run is expected to observe
ExpectedVerdicts ==
    IF script = "test_policy" THEN <<"ALLOW", "DENY">> ELSE <<"DENY", "DENY", "ALLOW">>

VerdictMismatch ==
    \E i \in 1 .. Len(responses) : StatedVerdict(responses[i]) # ExpectedVerdicts[i]

\* C17: a probing run that observed a verdict other than the expected one never
\* ends reporting success; unless a call raised, it still issues every remaining
\* probe and ends reporting a failure.
C17_MismatchReportedAsFailure ==
    script \in {"test_policy", "identity_probe"} =>
        /\ reported = "success" => ~VerdictMismatch
        /\ (VerdictMismatch /\ pc \in {"done", "aborted"}
                /\ abortReason # "unhandled_error")
               => /\ Len(responses) = Len(ExpectedVerdicts)
                  /\ reported = "failure"

\* C18: within a run of setup_policy.py a field that has been set (gateway
\* ARN, gateway endpoint, target ARN) is not changed by any later step; the
\* endpoint the create-gateway response gave survives the get_gateway re-fetch.
C18_RunStateAppendOnly ==
    [][script = "setup_policy" =>
          /\ gateway_arn # "NONE" => gateway_arn' = gateway_arn
          /\ gateway_endpoint # "NONE" => gateway_endpoint' = gateway_endpoint
          /\ target_arn # "NONE" => target_arn' = target_arn]_vars

C18_Witness ==
    /\ script = "setup_policy"
    /\ pc = "done"
    /\ gateway_arn # "NONE"
    /\ gateway_endpoint = "endpoint-from-create"
    /\ target_arn # "NONE"

\* C19: no step of cleanup_policy.py or of test_policy.py changes
\* config_runtime.json, whatever its calls do.
C19_StateFileUnchanged ==
    [][(script \in {"cleanup_policy", "test_policy"})
           => (gwExists' = gwExists /\ gwKeys' = gwKeys)]_vars

C19_Witness ==
    /\ script = "cleanup_policy"
    /\ pc = "done"
    /\ gwKeys = CleanupKeys
    /\ \E class \in DOMAIN delCause : delCause[class] = "OtherError"
    /\ \E class \in DOMAIN delCause : delCause[class] = "ok"

\* the name a creation call builds for a resource from the run's token
NameFor(resource, s, token) ==
    CASE resource = "gateway"          -> gateway_name(token)
      [] resource = "gateway_target"   -> target_name(token)
      [] resource = "agent_runtime"    -> runtime_name(s, token)
      [] resource = "runtime_endpoint" -> endpoint_name(token)

\* C20: every name a creation call submits ends with the run's token, and the
\* same call made with another token would submit another name.
C20_NamesCarryToken ==
    \A i \in 1 .. Len(names) :
        /\ names[i].name.suffix = <<names[i].token>>
        /\ NameFor(names[i].resource, script, names[i].token + 1) # names[i].name

\* C21: FAILED, READY and TIMEOUT are terminal: a run that has observed the
\* gateway as FAILED never afterwards treats it as READY nor creates its
\* children, and a run that raised the timeout never treats it as READY.
C21_TerminalStatuses ==
    /\ failedSeen =>
           /\ "gateway" \notin observedReady
           /\ "create_gateway_target" \notin issued
    /\ TimeoutRaised => "gateway" \notin observedReady

\* C23: in every iteration the readiness test precedes the deadline test: a
\* fetch that reports READY or ACTIVE returns, even after the deadline; the
\* timeout is raised only after a fetch that reported a non-ready status; at
\* most one fetch is issued after the deadline has passed.
C23_ReadinessBeforeDeadline ==
    /\ (fetches >= 1 /\ IsReady(status)) => (PollerReturned /\ ~TimeoutRaised)
    /\ TimeoutRaised => (~IsReady(status) /\ Elapsed > timeout_s)
    /\ lateFetches <= 1

C23_Witness ==
    /\ PollerReturned
    /\ IsReady(status)
    /\ Elapsed > timeout_s
    /\ lateFetches = 1

\* C22: teardown attempts the deletion of every listed target, whether or not
\* the deletion of a target listed before it failed, and attempts the gateway
\* deletion afterwards in every case.
C22_TargetsDeletedIndependently ==
    (script = "cleanup_policy" /\ pc = "done") =>
        /\ \A k \in 1 .. Len(listed) : DeleteCalls("target", listed[k]) >= 1
        /\ listed # <<>> => DeleteCalls("gateway", 0) = 1

\* the create_gateway calls a run has issued
GatewayCreateCalls == {i \in 1 .. Len(names) : names[i].resource = "gateway"}

\* the create_gateway_target calls of a run that were accepted
AcceptedVariants == {i \in 1 .. Len(outcomes) : outcomes[i] = "accepted"}

\* C24: whatever variants are accepted or rejected, a run of setup_policy.py
\* creates at most one gateway and at most one target; no create_gateway_target
\* call follows an accepted one; a run in which every variant was rejected ends
\* with one gateway and no target.
C24_AtMostOneGatewayOneTarget ==
    script = "setup_policy" =>
        /\ Cardinality(GatewayCreateCalls) <= 1
        /\ Cardinality(AcceptedVariants) <= 1
        /\ \A i \in AcceptedVariants : i = Len(outcomes)
        /\ Len(submitted) <= Len(Attempts)
        /\ abortReason = "no_variant" =>
               /\ Len(outcomes) = Len(Attempts)
               /\ AcceptedVariants = {}
               /\ Cardinality(GatewayCreateCalls) = 1
               /\ created = {"gateway"}

C24_Witness ==
    /\ script = "setup_policy"
    /\ pc = "done"
    /\ outcomes = <<"ClientError", "accepted">>
    /\ created = {"gateway", "target"}

====
